---- MODULE Spec2Model ----
(***************************************************************************)
(* pzl: the process search of src/pzl/__init__.py.  main() parses one      *)
(* selector, compiles it to a pattern, takes one snapshot of the process   *)
(* table (ProcInfo.from_process per process), runs the matching loop over  *)
(* the fields name, cmdline0, exe, sorts the matched records by            *)
(* ProcInfo.sorter and formats one table row per record.                   *)
(*                                                                         *)
(* Python strings are sequences of one-character strings.  A value read    *)
(* from a process accessor is a record [kind, v, e]: kind "val" with the   *)
(* value v, kind "none" for None, kind "err" for a captured psutil.Error   *)
(* whose class name is e.  A ProcessField adds the field's name.           *)
(***************************************************************************)
EXTENDS Integers, Sequences, FiniteSets

VARIABLES pc, selector, matcher_value, pending, vanished, processes,
          field_idx, matched_processes, tested, sorted_procs, table, crash

vars == <<pc, selector, matcher_value, pending, vanished, processes,
          field_idx, matched_processes, tested, sorted_procs, table, crash>>

\* ---------------------------------------------------------------- bounds

\* Number of processes in the process table (pids 1..MaxProcs).
MaxProcs == 2

\* Longest selector given on the command line, in characters.
MaxSelLen == 3

\* ---------------------------------------------------------------- strings

Range(s) == {s[i] : i \in 1..Len(s)}

StartsWith(s, p) == Len(p) <= Len(s) /\ SubSeq(s, 1, Len(p)) = p

\* str.removeprefix
RemovePrefix(s, p) == IF StartsWith(s, p) THEN SubSeq(s, Len(p) + 1, Len(s)) ELSE s

\* All strings over the characters cs of length at most n.
RECURSIVE StringsUpTo(_, _)
StringsUpTo(cs, n) ==
    IF n = 0 THEN {<<>>}
    ELSE LET shorter == StringsUpTo(cs, n - 1)
         IN  shorter \cup {Append(s, c) : s \in shorter, c \in cs}

\* The characters the model's strings are made of, in code point order.
CharOrder == <<"(", ")", "/", "1", "=", "A", "D", "N", "P", "S", "^", "a", "c",
               "d", "e", "h", "i", "l", "n", "o", "p", "r", "s", "t", "u", "v", "~">>

Ord(c) == CHOOSE i \in 1..Len(CharOrder) : CharOrder[i] = c

\* str.__lt__: lexicographic by code point, a proper prefix first.
RECURSIVE StrLt(_, _)
StrLt(a, b) ==
    IF b = <<>> THEN FALSE
    ELSE IF a = <<>> THEN TRUE
    ELSE IF Head(a) = Head(b) THEN StrLt(Tail(a), Tail(b))
    ELSE Ord(Head(a)) < Ord(Head(b))

\* str(int) of a natural number.
RECURSIVE IntStr(_)
IntStr(n) ==
    LET digit == <<"0", "1", "2", "3", "4", "5", "6", "7", "8", "9">>[(n % 10) + 1]
    IN  IF n < 10 THEN <<digit>> ELSE Append(IntStr(n \div 10), digit)

\* str(Path.home()) of the caller.
Home == <<"/", "h">>

DevPrefix == <<"/", "d", "e", "v", "/">>

\* abbrev_home
abbrev_home(path) ==
    LET without_prefix == RemovePrefix(path, Home)
    IN  IF without_prefix # path THEN <<"~">> \o without_prefix ELSE path

\* type(e).__name__ of a captured psutil.Error.
TypeName(e) ==
    CASE e = "AccessDenied"  -> <<"A", "c", "c", "e", "s", "s", "D", "e", "n", "i", "e", "d">>
      [] e = "NoSuchProcess" -> <<"N", "o", "S", "u", "c", "h", "P", "r", "o", "c", "e", "s", "s">>

\* ---------------------------------------------------------------- patterns

\* str.partition("="): the text before the first "=", and the text after it.
Partition(s) ==
    IF "=" \in Range(s)
    THEN LET i == CHOOSE k \in 1..Len(s) :
                      s[k] = "=" /\ \A j \in 1..(k - 1) : s[j] # "="
         IN  [key |-> SubSeq(s, 1, i - 1), value |-> SubSeq(s, i + 1, Len(s))]
    ELSE [key |-> s, value |-> <<>>]

Smart == <<"s", "m", "a", "r", "t">>

\* The selector's key and value, an empty value left empty.
ParseSelectorNoFallback(sel) == Partition(sel)

\* main, lines 289-292: the selector's key and value; an empty value makes the
\* key the value.
ParseSelector(sel) ==
    LET p == Partition(sel)
    IN  IF p.value = <<>> THEN [key |-> Smart, value |-> p.key] ELSE p

\* re.compile over the characters of the model: "^" asserts the start of the
\* string, every other character stands for itself.
ReCompile(text) ==
    [i \in 1..Len(text) |->
        IF text[i] = "^" THEN [t |-> "bol", c |-> ""] ELSE [t |-> "lit", c |-> text[i]]]

\* re.compile(re.escape(text)): every character stands for itself.
ReCompileEscaped(text) == [i \in 1..Len(text) |-> [t |-> "lit", c |-> text[i]]]

\* main, lines 294-297.
CompileValue(value) ==
    IF StartsWith(value, <<"/">>) THEN ReCompile(Tail(value))
    ELSE ReCompileEscaped(value)

\* Whether the atoms from the k-th on match s at offset pos.
RECURSIVE MatchAt(_, _, _, _)
MatchAt(atoms, k, s, pos) ==
    IF k > Len(atoms) THEN TRUE
    ELSE IF atoms[k].t = "bol" THEN pos = 0 /\ MatchAt(atoms, k + 1, s, pos)
    ELSE pos < Len(s) /\ s[pos + 1] = atoms[k].c /\ MatchAt(atoms, k + 1, s, pos + 1)

\* Pattern.search: a match anywhere in the string.
Search(atoms, s) == \E pos \in 0..Len(s) : MatchAt(atoms, 1, s, pos)

\* ---------------------------------------------------------------- fields

\* What a process accessor gives: a value, None, or a raised psutil.Error.
Val(v) == [kind |-> "val", v |-> v, e |-> ""]

NoneOf(zero) == [kind |-> "none", v |-> zero, e |-> ""]

Raised(e, zero) == [kind |-> "err", v |-> zero, e |-> e]

\* ProcessField.for_name: the subclass whose name is the field's, or else the
\* generic ProcessField.
for_name(name) ==
    CASE name = "ppid"     -> "ParentField"
      [] name = "cmdline0" -> "Cmdline0Field"
      [] name = "terminal" -> "TerminalField"
      [] OTHER             -> "ProcessField"

\* A field object: its class, its name and its value.
Field(cls, name, value) ==
    [cls |-> cls, name |-> name, kind |-> value.kind, v |-> value.v, e |-> value.e]

IntFields == {"pid", "ppid"}

\* ProcessField.__str__
ProcessField_str(f) ==
    CASE f.kind = "err"  -> TypeName(f.e)
      [] f.kind = "none" -> <<>>
      [] OTHER           -> IF f.name \in IntFields THEN IntStr(f.v) ELSE f.v

\* Cmdline0Field.__str__
Cmdline0Field_str(f) ==
    IF f.kind = "val" THEN abbrev_home(f.v) ELSE ProcessField_str(f)

\* TerminalField.__str__
TerminalField_str(f) ==
    IF f.kind = "val" THEN RemovePrefix(f.v, DevPrefix) ELSE ProcessField_str(f)

\* str(field): the __str__ of the field's class.
Str(f) ==
    CASE f.cls = "Cmdline0Field" -> Cmdline0Field_str(f)
      [] f.cls = "TerminalField" -> TerminalField_str(f)
      [] OTHER                   -> ProcessField_str(f)

\* A rich Text: its plain text and its style.
Cell(text, style) == [text |-> text, style |-> style]

\* ProcessField.format; the field parent_name builds carries its own format,
\* the dimmed name in parentheses.
format(f) ==
    IF f.name = "parent" THEN Cell(<<"(">> \o ProcessField_str(f) \o <<")">>, "dim")
    ELSE CASE f.kind = "err"  -> Cell(TypeName(f.e), "dim")
           [] f.kind = "none" -> Cell(<<"n", "o", "n", "e">>, "dim")
           [] OTHER           -> Cell(Str(f), IF f.name = "pid" THEN "cyan" ELSE "")

\* ProcessField.__eq__ (the dataclass's): same name and equal values.  The two
\* fields belong to different records, so two captured errors are two
\* exception objects, which are never equal.
FieldEq(a, b) ==
    /\ a.name = b.name
    /\ a.kind = b.kind
    /\ a.kind # "err"
    /\ a.v = b.v

\* ProcessField.__lt__: self.value < other.value, "TypeError" when Python does
\* not order the two values (None or a psutil.Error on either side).
ProcessField_lt(a, b) ==
    IF a.kind = "val" /\ b.kind = "val"
    THEN IF a.name \in IntFields
         THEN (IF a.v < b.v THEN "true" ELSE "false")
         ELSE (IF StrLt(a.v, b.v) THEN "true" ELSE "false")
    ELSE "TypeError"

\* ---------------------------------------------------------------- ProcInfo

NoMatch == "None"

\* ProcInfo.from_process: pid read directly, every other accessor's value or
\* captured psutil.Error wrapped by the class for_name gives.
from_process(pid, raw) ==
    [pid           |-> Field("ProcessField", "pid", Val(pid)),
     ppid          |-> Field(for_name("ppid"), "ppid", raw.ppid),
     name          |-> Field(for_name("name"), "name", raw.name),
     cmdline       |-> Field(for_name("cmdline"), "cmdline", raw.cmdline),
     exe           |-> Field(for_name("exe"), "exe", raw.exe),
     terminal      |-> Field(for_name("terminal"), "terminal", raw.terminal),
     status        |-> Field(for_name("status"), "status", raw.status),
     username      |-> Field(for_name("username"), "username", raw.username),
     matched_field |-> NoMatch]

\* ProcInfo.sorter, without the pid the commented-out key of main leaves out.
sorterNoPid(proc) == <<proc.username, proc.ppid, proc.terminal>>

\* ProcInfo.sorter
sorter(proc) == <<proc.username, proc.ppid, proc.terminal, proc.pid>>

\* ProcInfo.cmdline0
cmdline0(proc) ==
    CASE proc.cmdline.kind = "val" /\ Len(proc.cmdline.v) > 0 ->
             Field("Cmdline0Field", "cmdline0", Val(proc.cmdline.v[1]))
      [] proc.cmdline.kind = "val" ->
             Field("Cmdline0Field", "cmdline0", NoneOf(<<>>))
      [] OTHER ->
             Field("Cmdline0Field", "cmdline0",
                   [kind |-> proc.cmdline.kind, v |-> <<>>, e |-> proc.cmdline.e])

\* The result of evaluating an attribute: a field object, None, or a raise.
Got(f) == [ret |-> "field", field |-> f, exc |-> ""]

GotNone == [ret |-> "None", field |-> Field("ProcessField", "", NoneOf(<<>>)), exc |-> ""]

Raises(exc) == [ret |-> "raise", field |-> Field("ProcessField", "", NoneOf(<<>>)), exc |-> exc]

\* ProcInfo.parent_name; lookup is what psutil.Process(ppid).name() gives now:
\* the parent's name, or a raised psutil.Error.
parent_name(proc, lookup) ==
    IF proc.ppid.kind = "val"
    THEN IF lookup.kind = "err" THEN Raises(lookup.e)
         ELSE Got(Field("ProcessField", "parent", lookup))
    ELSE GotNone

\* getattr(proc, field) for the fields of a row.
GetAttr(proc, field, lookup) ==
    CASE field = "pid"         -> Got(proc.pid)
      [] field = "ppid"        -> Got(proc.ppid)
      [] field = "parent_name" -> parent_name(proc, lookup)
      [] field = "name"        -> Got(proc.name)
      [] field = "cmdline0"    -> Got(cmdline0(proc))
      [] field = "exe"         -> Got(proc.exe)
      [] field = "terminal"    -> Got(proc.terminal)
      [] field = "status"      -> Got(proc.status)
      [] field = "username"    -> Got(proc.username)

\* format_row's default fields.
DefaultFields ==
    <<"pid", "ppid", "parent_name", "name", "cmdline0", "exe", "terminal", "status",
      "username">>

\* One cell, in bold when the field is name.
FormatCellBoldName(proc, field, lookup) ==
    LET got == GetAttr(proc, field, lookup)
    IN  CASE got.ret = "raise" -> [exc |-> got.exc, cell |-> Cell(<<>>, "")]
          [] got.ret = "None"  -> [exc |-> "AttributeError", cell |-> Cell(<<>>, "")]
          [] OTHER ->
             LET value == format(got.field)
             IN  [exc  |-> "",
                  cell |-> IF field = "name" THEN Cell(value.text, "bold") ELSE value]

\* format_row, lines 215-224, one cell: the field's format(), in bold when the
\* field is the matched one.  None has no format(): AttributeError.
FormatCell(proc, field, lookup) ==
    LET got == GetAttr(proc, field, lookup)
    IN  CASE got.ret = "raise" -> [exc |-> got.exc, cell |-> Cell(<<>>, "")]
          [] got.ret = "None"  -> [exc |-> "AttributeError", cell |-> Cell(<<>>, "")]
          [] OTHER ->
             LET value == format(got.field)
             IN  [exc  |-> "",
                  cell |-> IF field = proc.matched_field
                           THEN Cell(value.text, "bold") ELSE value]

\* ProcInfo.format_row: the cells of the fields in order; the first exception a
\* field raises ends it.
format_row(proc, given, lookup) ==
    LET fields == IF given = <<>> THEN DefaultFields ELSE given
        cells  == [i \in 1..Len(fields) |-> FormatCell(proc, fields[i], lookup)]
        failed == {i \in 1..Len(fields) : cells[i].exc # ""}
    IN  IF failed = {}
        THEN [exc |-> "", row |-> [i \in 1..Len(fields) |-> cells[i].cell]]
        ELSE [exc |-> cells[CHOOSE i \in failed : \A j \in failed : i <= j].exc,
              row |-> <<>>]

\* ---------------------------------------------------------------- sorting

\* The < of two key tuples: the first position where the fields are not equal
\* decides, by ProcessField.__lt__; equal tuples of one length are not less.
KeyLt(a, b) ==
    LET diff == {i \in 1..Len(a) : ~FieldEq(a[i], b[i])}
    IN  IF diff = {} THEN "false"
        ELSE LET i == CHOOSE k \in diff : \A j \in diff : k <= j
             IN  ProcessField_lt(a[i], b[i])

Failed == [exc |-> "TypeError", n |-> 0, seq |-> <<>>]

\* list.sort's count_run from position i on: the length of the run that starts
\* the list, descending (strictly) or not.
RECURSIVE RunEnd(_, _, _)
RunEnd(a, i, descending) ==
    IF i > Len(a) THEN [exc |-> "", n |-> i - 1, seq |-> <<>>]
    ELSE LET c == KeyLt(a[i].key, a[i - 1].key)
         IN  CASE c = "TypeError" -> Failed
               [] (c = "true") = descending -> RunEnd(a, i + 1, descending)
               [] OTHER -> [exc |-> "", n |-> i - 1, seq |-> <<>>]

Reverse(s) == [i \in 1..Len(s) |-> s[Len(s) + 1 - i]]

\* count_run, and the reversal of a descending run.
CountRun(a) ==
    LET c == KeyLt(a[2].key, a[1].key)
    IN  IF c = "TypeError" THEN Failed
        ELSE LET r == RunEnd(a, 3, c = "true")
             IN  IF r.exc # "" THEN Failed
                 ELSE [exc |-> "", n |-> r.n,
                       seq |-> IF c = "true"
                               THEN Reverse(SubSeq(a, 1, r.n)) \o SubSeq(a, r.n + 1, Len(a))
                               ELSE a]

\* binarysort's search for the pivot's place among a[l..r-1].
RECURSIVE BinarySearch(_, _, _, _)
BinarySearch(a, pivot, l, r) ==
    IF l >= r THEN [exc |-> "", n |-> l, seq |-> <<>>]
    ELSE LET p == l + ((r - l) \div 2)
             c == KeyLt(pivot.key, a[p].key)
         IN  CASE c = "TypeError" -> Failed
               [] c = "true"      -> BinarySearch(a, pivot, l, p)
               [] OTHER           -> BinarySearch(a, pivot, p + 1, r)

\* binarysort: a[1..start-1] is sorted; insert a[start], a[start+1], ...
RECURSIVE BinarySort(_, _)
BinarySort(a, start) ==
    IF start > Len(a) THEN [exc |-> "", n |-> Len(a), seq |-> a]
    ELSE LET pivot == a[start]
             at    == BinarySearch(a, pivot, 1, start)
         IN  IF at.exc # "" THEN Failed
             ELSE BinarySort(SubSeq(a, 1, at.n - 1) \o <<pivot>>
                                 \o SubSeq(a, at.n, start - 1)
                                 \o SubSeq(a, start + 1, Len(a)),
                             start + 1)

\* sorted(items, key=...) of a short list, as CPython sorts it: the keys are
\* computed first, the run that starts the list is found and the rest is
\* inserted by binary search; a comparison that raises ends the sort.
\* keyed[i] is [item, key].
SortKeyed(keyed) ==
    IF Len(keyed) < 2 THEN [exc |-> "", seq |-> [i \in 1..Len(keyed) |-> keyed[i].item]]
    ELSE LET run == CountRun(keyed)
         IN  IF run.exc # "" THEN [exc |-> run.exc, seq |-> <<>>]
             ELSE LET done == BinarySort(run.seq, run.n + 1)
                  IN  IF done.exc # "" THEN [exc |-> done.exc, seq |-> <<>>]
                      ELSE [exc |-> "", seq |-> [i \in 1..Len(keyed) |-> done.seq[i].item]]

\* The record of the snapshot with this pid.
ProcOf(procs, pid) == procs[CHOOSE i \in 1..Len(procs) : procs[i].pid.v = pid]

\* main, line 320: sorted(matched_processes, key=ProcInfo.sorter); the matched
\* records are named by their pids.
SortedProcs(procs, matched) ==
    SortKeyed([i \in 1..Len(matched) |->
                  [item |-> matched[i], key |-> sorter(ProcOf(procs, matched[i]))]])

\* ---------------------------------------------------------------- matching

\* main, line 303.
MatchFields == <<"name", "cmdline0", "exe">>

PsutilErrors == {"Error", "NoSuchProcess", "ZombieProcess", "AccessDenied", "TimeoutExpired"}

\* main, line 306: the test made on what getattr(proc, field_name) gives, an
\* object of a field class.
Eligible(field_value) ==
    field_value.cls \notin PsutilErrors /\ field_value.cls # "NoneType"

\* Every record, matched already or not.
CandidatesAll(procs, matched) == 1..Len(procs)

\* main, line 304: the records the loop of one field goes through, those not in
\* matched_processes (by position in the snapshot).
Candidates(procs, matched) == {i \in 1..Len(procs) : procs[i].pid.v \notin Range(matched)}

\* main, lines 304-310, for one field_name: the records from position i on.
RECURSIVE MatchLoop(_, _, _, _, _, _)
MatchLoop(procs, i, matched, seen, field_name, pattern) ==
    IF i > Len(procs) THEN [processes |-> procs, matched |-> matched, tested |-> seen]
    ELSE IF i \notin Candidates(procs, matched)
    THEN MatchLoop(procs, i + 1, matched, seen, field_name, pattern)
    ELSE LET proc        == procs[i]
             field_value == GetAttr(proc, field_name, Val(<<>>)).field
         IN  IF Eligible(field_value)
             THEN IF Search(pattern, Str(field_value))
                  THEN MatchLoop([procs EXCEPT ![i].matched_field = field_name], i + 1,
                                 Append(matched, proc.pid.v),
                                 seen \cup {<<proc.pid.v, field_name>>},
                                 field_name, pattern)
                  ELSE MatchLoop(procs, i + 1, matched,
                                 seen \cup {<<proc.pid.v, field_name>>},
                                 field_name, pattern)
             ELSE MatchLoop(procs, i + 1, matched, seen, field_name, pattern)

\* main, lines 301-313: the loops of the fields from the k-th on.
RECURSIVE MatchPasses(_, _, _, _, _)
MatchPasses(procs, k, matched, seen, pattern) ==
    IF k > Len(MatchFields)
    THEN [processes |-> procs, matched |-> matched, tested |-> seen]
    ELSE LET r == MatchLoop(procs, 1, matched, seen, MatchFields[k], pattern)
         IN  MatchPasses(r.processes, k + 1, r.matched, r.tested, pattern)

\* main, lines 288-313 on a fresh snapshot: the selector parsed and compiled,
\* then every field's loop.
SmartSearch(procs, sel) ==
    MatchPasses(procs, 1, <<>>, {}, CompileValue(ParseSelector(sel).value))

\* ---------------------------------------------------------------- process table

Sh == <<"s", "h">>

HomeTool == <<"/", "h", "/", "s">>

Alice == <<"a", "l">>

Root == <<"r", "o">>

Pts1 == <<"/", "d", "e", "v", "/", "p", "t", "s", "/", "1">>

Sleeping == <<"s", "l", "e", "e", "p", "i", "n", "g">>

AccessDenied == "AccessDenied"

NoSuchProcess == "NoSuchProcess"

\* What the accessors of a process that has exited give: each raises
\* NoSuchProcess.
Gone ==
    [name     |-> Raised(NoSuchProcess, <<>>), ppid     |-> Raised(NoSuchProcess, 0),
     cmdline  |-> Raised(NoSuchProcess, <<>>), exe      |-> Raised(NoSuchProcess, <<>>),
     terminal |-> Raised(NoSuchProcess, <<>>), status   |-> Raised(NoSuchProcess, <<>>),
     username |-> Raised(NoSuchProcess, <<>>)]

\* Process tables whose searched fields vary: a readable or unreadable name, an
\* empty, plain or home-prefixed command line, a readable or unreadable exe.
MatchWorld(pid) ==
    [name     : {Val(<<"h">>), Raised(AccessDenied, <<>>)},
     ppid     : {Val(1)},
     cmdline  : {Val(<<>>), Val(<<Sh>>), Val(<<HomeTool, Sh>>)},
     exe      : {Val(HomeTool), Raised(AccessDenied, <<>>)},
     terminal : {NoneOf(<<>>)},
     status   : {Val(Sleeping)},
     username : {Val(Alice)}]

\* Process tables whose sort key varies: owner, parent pid and terminal, each
\* readable or not.
SortWorld(pid) ==
    [name     : {Val(IF pid % 2 = 1 THEN Sh ELSE <<"h">>)},
     ppid     : {Val(1), Val(2), Raised(AccessDenied, 0)},
     cmdline  : {Val(<<>>)},
     exe      : {Val(<<>>)},
     terminal : {NoneOf(<<>>), Val(Pts1)},
     status   : {Val(Sleeping)},
     username : {Val(Alice), Val(Root), Raised(AccessDenied, <<>>)}]

\* Process tables for the selector's parsing: only the name varies.
SelectorWorld(pid) ==
    [name     : {Val(<<"s">>), Val(<<"h">>)},
     ppid     : {Val(1)},
     cmdline  : {Val(<<>>)},
     exe      : {Val(<<>>)},
     terminal : {NoneOf(<<>>)},
     status   : {Val(Sleeping)},
     username : {Val(Alice)}]

\* Process tables in which a process may have exited before it is read.
RaceWorld(pid) == {Gone} \cup SelectorWorld(pid)

\* The accessor outcomes a process of the named family of tables may give.
World(world, pid) ==
    CASE world = "match"    -> MatchWorld(pid)
      [] world = "sort"     -> SortWorld(pid)
      [] world = "race"     -> RaceWorld(pid)
      [] world = "selector" -> SelectorWorld(pid)

\* What the fresh lookup of a parent's name gives: its name, or NoSuchProcess
\* when the parent has exited.
ParentLookups == {Val(<<"i", "n", "i", "t">>), Raised(NoSuchProcess, <<>>)}

MatchSelectors == {<<"s">>, <<"h">>, <<"/", "^", "s">>}

RaceSelectors == {<<>>, <<"s">>}

SortSelectors == {<<>>, <<"s">>}

SelectorChars == {"s", "=", "/", "^"}

AllSelectors == StringsUpTo(SelectorChars, MaxSelLen)

\* ---------------------------------------------------------------- main

\* main, line 316: the table's columns.
Columns ==
    <<"pid", "parent", "", "name", "cmdline0", "exe", "terminal", "status", "username">>

Init(selectors) ==
    /\ pc = "parse"
    /\ selector \in selectors
    /\ matcher_value = <<>>
    /\ pending \in SUBSET (1..MaxProcs)
    /\ vanished = {}
    /\ processes = <<>>
    /\ field_idx = 1
    /\ matched_processes = <<>>
    /\ tested = {}
    /\ sorted_procs = <<>>
    /\ table = [columns |-> <<>>, rows |-> <<>>]
    /\ crash = ""

\* main, lines 288-297: the selector parsed and compiled.
ParseArgs ==
    /\ pc = "parse"
    /\ matcher_value' = CompileValue(ParseSelector(selector).value)
    /\ pc' = IF pending = {} THEN "match" ELSE "snapshot"
    /\ UNCHANGED <<selector, pending, vanished, processes, field_idx,
                   matched_processes, tested, sorted_procs, table, crash>>

\* main, line 299: the next process of the enumeration is read by
\* ProcInfo.from_process and appended; a process may have exited since it was
\* enumerated.
FromProcess(world) ==
    /\ pc = "snapshot"
    /\ \E pid \in pending : \E raw \in World(world, pid) :
          /\ processes' = Append(processes, from_process(pid, raw))
          /\ pending' = pending \ {pid}
          /\ vanished' = IF raw = Gone THEN vanished \cup {pid} ELSE vanished
          /\ pc' = IF pending' = {} THEN "match" ELSE "snapshot"
    /\ UNCHANGED <<selector, matcher_value, field_idx, matched_processes, tested,
                   sorted_procs, table, crash>>

\* main, lines 303-313: the loop of one field over the records not yet matched.
MatchField ==
    /\ pc = "match"
    /\ LET r == MatchLoop(processes, 1, matched_processes, tested,
                          MatchFields[field_idx], matcher_value)
       IN  /\ processes' = r.processes
           /\ matched_processes' = r.matched
           /\ tested' = r.tested
    /\ field_idx' = field_idx + 1
    /\ pc' = IF field_idx = Len(MatchFields) THEN "sort" ELSE "match"
    /\ UNCHANGED <<selector, matcher_value, pending, vanished, sorted_procs, table,
                   crash>>

\* main, lines 315-320: the table gets its columns, the matched records are
\* sorted; a comparison that raises ends the run.
SortProcs ==
    /\ pc = "sort"
    /\ LET r == SortedProcs(processes, matched_processes)
       IN  IF r.exc # ""
           THEN /\ pc' = "crashed"
                /\ crash' = r.exc
                /\ UNCHANGED sorted_procs
           ELSE /\ pc' = "format"
                /\ sorted_procs' = r.seq
                /\ UNCHANGED crash
    /\ table' = [table EXCEPT !.columns = Columns]
    /\ UNCHANGED <<selector, matcher_value, pending, vanished, processes, field_idx,
                   matched_processes, tested>>

\* main, lines 321-322: the next sorted record's row is formatted and added; an
\* exception of format_row ends the run.
FormatRow ==
    /\ pc = "format"
    /\ Len(table.rows) < Len(sorted_procs)
    /\ \E lookup \in ParentLookups :
          LET proc == ProcOf(processes, sorted_procs[Len(table.rows) + 1])
              r    == format_row(proc, <<>>, lookup)
          IN  IF r.exc # ""
              THEN /\ pc' = "crashed"
                   /\ crash' = r.exc
                   /\ UNCHANGED table
              ELSE /\ table' = [table EXCEPT !.rows = Append(@, r.row)]
                   /\ UNCHANGED <<pc, crash>>
    /\ UNCHANGED <<selector, matcher_value, pending, vanished, processes, field_idx,
                   matched_processes, tested, sorted_procs>>

\* main, line 324: the table is printed.
PrintTable ==
    /\ pc = "format"
    /\ Len(table.rows) = Len(sorted_procs)
    /\ pc' = "done"
    /\ UNCHANGED <<selector, matcher_value, pending, vanished, processes, field_idx,
                   matched_processes, tested, sorted_procs, table, crash>>

Next(world) ==
    \/ ParseArgs
    \/ FromProcess(world)
    \/ MatchField
    \/ SortProcs
    \/ FormatRow
    \/ PrintTable

\* The search over process tables whose searched fields vary.
Spec == Init(MatchSelectors) /\ [][Next("match")]_vars

\* The search over process tables whose sort key varies.
SpecSort == Init(SortSelectors) /\ [][Next("sort")]_vars

\* The search over process tables in which processes exit while they are read.
SpecRace == Init(RaceSelectors) /\ [][Next("race")]_vars

\* Every selector of up to MaxSelLen characters, over process tables whose
\* names vary.
SpecSelector == Init(AllSelectors) /\ [][Next("selector")]_vars

\* ---------------------------------------------------------------- claims

Matched == pc \in {"sort", "format", "done", "crashed"}

\* The fields of MatchFields (by position) whose display string the pattern
\* searches.
HitFields(proc) ==
    {k \in 1..Len(MatchFields) :
        Search(matcher_value, Str(GetAttr(proc, MatchFields[k], Val(<<>>)).field))}

First(S) == CHOOSE k \in S : \A j \in S : k <= j

Occurrences(pid) ==
    Cardinality({i \in 1..Len(matched_processes) : matched_processes[i] = pid})

\* C1: once the matching loop has run, a record is in the matched list exactly
\* once if the pattern searches the display string of one of its name,
\* cmdline0, exe, and is then tagged with the first such field, no later field
\* having been tested on it; a record none of whose three display strings the
\* pattern searches is not in the list and has no tag.
C1_FirstMatchWins ==
    Matched =>
        \A i \in 1..Len(processes) :
            LET proc == processes[i]
                hits == HitFields(proc)
            IN  IF hits = {}
                THEN Occurrences(proc.pid.v) = 0 /\ proc.matched_field = NoMatch
                ELSE /\ Occurrences(proc.pid.v) = 1
                     /\ proc.matched_field = MatchFields[First(hits)]
                     /\ \A k \in 1..Len(MatchFields) :
                           k > First(hits) => <<proc.pid.v, MatchFields[k]>> \notin tested

\* A record tagged cmdline0 whose exe the pattern searches too, beside a record
\* tagged name.
C1_Witness ==
    /\ pc = "sort"
    /\ \E i, j \in 1..Len(processes) :
          /\ processes[i].matched_field = "cmdline0"
          /\ HitFields(processes[i]) = {2, 3}
          /\ processes[j].matched_field = "name"

\* C2: no record is tagged with a field (name, cmdline0 or exe) whose value is
\* a captured failure or None.
C2_FailureNeverMatches ==
    \A i \in 1..Len(processes) :
        LET proc == processes[i]
        IN  proc.matched_field # NoMatch =>
                GetAttr(proc, proc.matched_field, Val(<<>>)).field.kind = "val"

\* C3: the sort of the matched records never aborts, and ProcessField.__lt__
\* has a result for the key fields of any two of them.
C3_CompareNeverRaises ==
    pc \in {"format", "done", "crashed"} =>
        /\ crash # "TypeError"
        /\ \A p, q \in Range(matched_processes) :
              p # q => \A k \in 1..4 :
                  ProcessField_lt(sorter(ProcOf(processes, p))[k],
                                  sorter(ProcOf(processes, q))[k]) \in {"true", "false"}

\* C4: format_row with the default columns completes for every sorted record,
\* parent_name giving a field whatever the parent's lookup gives and whether
\* ppid is an integer or a captured failure.
C4_ParentNameReturnsField ==
    pc \in {"done", "crashed"} =>
        /\ crash \notin {"NoSuchProcess", "AccessDenied", "AttributeError"}
        /\ \A p \in Range(sorted_procs) : \A lookup \in ParentLookups :
              parent_name(ProcOf(processes, p), lookup).ret = "field"

\* The key the rows are to be ordered by.
RowKey(pid) ==
    LET proc == ProcOf(processes, pid)
    IN  <<proc.username, proc.ppid, proc.terminal, proc.pid>>

Comparable(p, q) == KeyLt(RowKey(p), RowKey(q)) # "TypeError"

\* C5: the sorted records are the matched records, each strictly below every
\* later one by the key (username, ppid, terminal, pid), so their order is that
\* of the set of matched records whatever the order of the enumeration; the
\* rows are those of the sorted records in order; and the sort aborts exactly
\* when two matched records have keys Python does not order.
C5_SortedByKey ==
    /\ (pc \in {"format", "done"} \/ (pc = "crashed" /\ crash # "TypeError")) =>
          /\ Len(sorted_procs) = Len(matched_processes)
          /\ Range(sorted_procs) = Range(matched_processes)
          /\ \A i, j \in 1..Len(sorted_procs) :
                i < j => KeyLt(RowKey(sorted_procs[i]), RowKey(sorted_procs[j])) = "true"
          /\ \A i \in 1..Len(table.rows) : table.rows[i][1].text = IntStr(sorted_procs[i])
    /\ (pc = "crashed" /\ crash = "TypeError") =>
          \E p, q \in Range(matched_processes) : p # q /\ ~Comparable(p, q)

\* Two rows printed whose order is neither that of the enumeration nor that of
\* the matching.
C5_Witness ==
    /\ pc = "done"
    /\ Len(table.rows) = 2
    /\ processes[1].pid.v = sorted_procs[2]
    /\ matched_processes[1] = sorted_procs[2]

\* C6: a process that exited before from_process read it has no record in the
\* snapshot.
C6_VanishedSkipped ==
    \A i \in 1..Len(processes) : processes[i].pid.v \notin vanished

Owners == {Str(ProcOf(processes, pid).username) : pid \in Range(matched_processes)}

\* C7: the printed table has the username column, and its rows a cell for it,
\* exactly when the matched records have two or more distinct owners.
C7_OwnerColumnIffTwoOwners ==
    pc = "done" =>
        /\ ("username" \in Range(table.columns)) <=> (Cardinality(Owners) >= 2)
        /\ \A i \in 1..Len(table.rows) :
              Len(table.rows[i]) = Len(DefaultFields) <=> (Cardinality(Owners) >= 2)

Abbreviated(value) ==
    IF StartsWith(value, Home)
    THEN <<"~">> \o SubSeq(value, Len(Home) + 1, Len(value))
    ELSE value

\* C8: the display string of a record's cmdline0 and of its exe, as the
\* matching loop searched it and as a row shows it, is the value with a leading
\* home directory replaced by "~", and the value itself when it does not start
\* with the home directory.
C8_HomeAbbreviated ==
    Matched =>
        /\ \A i \in 1..Len(processes) :
              \A f \in {cmdline0(processes[i]), processes[i].exe} :
                  f.kind = "val" => Str(f) = Abbreviated(f.v)
        /\ \A i \in 1..Len(table.rows) :
              LET proc == ProcOf(processes, sorted_procs[i])
              IN  /\ cmdline0(proc).kind = "val" =>
                         table.rows[i][5].text = Abbreviated(cmdline0(proc).v)
                  /\ proc.exe.kind = "val" =>
                         table.rows[i][6].text = Abbreviated(proc.exe.v)

BoldCells(row) == {k \in 1..Len(row) : row[k].style = "bold"}

MatchedColumns(proc) ==
    {k \in 1..Len(DefaultFields) : DefaultFields[k] = proc.matched_field}

Untagged == [i \in 1..Len(processes) |-> [processes[i] EXCEPT !.matched_field = NoMatch]]

SameResultAs(sel) ==
    LET r == SmartSearch(Untagged, sel)
    IN  r.processes = processes /\ r.matched = matched_processes

\* C10 as stated: a selector key=value with a non-empty value gives the
\* matched records and tags of the bare selector value, and a selector whose
\* part after the "=" is empty those of the bare selector made of its key.
C10_KeyNeverMatters ==
    (Matched /\ "=" \in Range(selector)) =>
        LET p == Partition(selector)
        IN  IF p.value # <<>> THEN SameResultAs(p.value) ELSE SameResultAs(p.key)

\* C10 amended: the same, for a value that holds no further "=".
C10_KeyIgnoredForPlainValue ==
    (Matched /\ "=" \in Range(selector)) =>
        LET p == Partition(selector)
        IN  IF p.value # <<>>
            THEN "=" \notin Range(p.value) => SameResultAs(p.value)
            ELSE SameResultAs(p.key)

\* The selector /=s has matched one record of two.
C10_Witness ==
    /\ pc = "done"
    /\ selector = <<"/", "=", "s">>
    /\ Len(processes) = 2
    /\ Len(matched_processes) = 1

====
